---- MODULE Spec2Model ----
(***************************************************************************)
(* A model of src/render_engine.c: the frame renderer                      *)
(* (Render_Engine_RenderFrame and its helpers) and the terminal display    *)
(* (Render_Engine_DisplayFrame and its helpers).                           *)
(*                                                                         *)
(* Numbers.  The C code computes in rounding_t, float and double.  The     *)
(* model computes every arithmetic operation as IEEE 754 does: the exact   *)
(* result rounded to nearest, ties to even, to the 24-bit mantissa of      *)
(* float or the 53-bit mantissa of double, in the type the C expression    *)
(* has (an operation with a double operand is a double operation, a store  *)
(* into a rounding_t or float variable rounds once more).  rounding_t is   *)
(* float or double, a parameter of the build (roundingType).  A value is   *)
(* <<sign, mantissa, exponent>> with an odd mantissa held as a sequence of *)
(* 15-bit limbs, lowest first; the exponent is not bounded, so overflow,   *)
(* underflow, infinities and NaN are not modelled.  Every operation is     *)
(* evaluated in its own type and products are not fused with sums.         *)
(*                                                                         *)
(* atan2, sqrt, cos and sin are library functions: atan2 and sqrt are      *)
(* tabulated on the arguments for which their result is the correctly      *)
(* rounded multiple of pi/4 (atan2) or an exact root (sqrt), cos and sin   *)
(* on the radians of a yaw of 0, 90, -90 and 180 degrees, with the values  *)
(* the C library returns there.  The bounded inputs are the scenes these   *)
(* tables cover.                                                           *)
(***************************************************************************)
EXTENDS Integers, Sequences, FiniteSets, TLC

VARIABLES
    castMode,       \* what the build does for an out-of-range float -> uint16_t cast
    roundingType,   \* the type rounding_t of the build
    world,          \* the caller's world_t: [backgroundColor, triangles]
    camera,         \* the caller's camera_t
    frame,          \* the caller's framebuffer_t: [width, height, buffer]
    compareCamera,  \* the static camera_t read by compareTriangles
    trace,          \* what the last RenderFrame call did, per sorted triangle
    first,          \* the first RenderFrame call: its inputs and its result
    rotation,       \* a camera rotation handed to the heading computation
    heading,        \* the heading computed from it
    number,         \* a number handed to a terminal helper
    tx,             \* the terminal call in progress: where it is and what it
                    \* has still to write
    uart,           \* the UART: has its buffer space, is it transmitting
    channel,        \* every byte handed to the UART, in order
    displayed,      \* the frames of the DisplayFrame calls that returned
    points,         \* three projected points handed to the classification
    shape,          \* the classification of those points
    request,        \* the last paint request made of paintPixelf
    before          \* the framebuffer before that request

vars == <<castMode, roundingType, world, camera, frame, compareCamera, trace, first,
          rotation, heading, number, tx, uart, channel, displayed, points, shape,
          request, before>>

-----------------------------------------------------------------------------
(* Natural numbers of any size: sequences of limbs, lowest first, no       *)
(* leading zero limb.                                                      *)

LimbBits == 15
LimbBase == 2 ^ LimbBits

Abs(a) == IF a < 0 THEN -a ELSE a

RECURSIVE BTrim(_)
BTrim(a) == IF a = <<>> THEN a
            ELSE IF a[Len(a)] = 0 THEN BTrim(SubSeq(a, 1, Len(a) - 1)) ELSE a

RECURSIVE BFromInt(_)
BFromInt(n) == IF n = 0 THEN <<>> ELSE <<n % LimbBase>> \o BFromInt(n \div LimbBase)

RECURSIVE BToInt(_)
BToInt(a) == IF a = <<>> THEN 0 ELSE Head(a) + LimbBase * BToInt(Tail(a))

Rest(a) == IF a = <<>> THEN a ELSE Tail(a)
Low(a) == IF a = <<>> THEN 0 ELSE Head(a)

\* a + b + c for a carry c
RECURSIVE BAddC(_, _, _)
BAddC(a, b, c) ==
    IF a = <<>> /\ b = <<>> THEN (IF c = 0 THEN <<>> ELSE <<c>>)
    ELSE LET x == Low(a) + Low(b) + c
         IN  <<x % LimbBase>> \o BAddC(Rest(a), Rest(b), x \div LimbBase)

BAdd(a, b) == BAddC(a, b, 0)

RECURSIVE BSubC(_, _, _)
BSubC(a, b, c) ==
    IF a = <<>> THEN <<>>
    ELSE LET x == Head(a) - Low(b) - c
         IN  <<x % LimbBase>> \o BSubC(Tail(a), Rest(b), IF x < 0 THEN 1 ELSE 0)

\* a - b for a >= b
BSub(a, b) == BTrim(BSubC(a, b, 0))

\* a * k + c for one limb k
RECURSIVE BMulSmall(_, _, _)
BMulSmall(a, k, c) ==
    IF a = <<>> THEN (IF c = 0 THEN <<>> ELSE <<c>>)
    ELSE LET x == Head(a) * k + c
         IN  <<x % LimbBase>> \o BMulSmall(Tail(a), k, x \div LimbBase)

RECURSIVE BMul(_, _)
BMul(a, b) ==
    IF a = <<>> \/ b = <<>> THEN <<>>
    ELSE LET hi == BMul(a, Tail(b))
         IN  BAdd(BMulSmall(a, Head(b), 0), IF hi = <<>> THEN hi ELSE <<0>> \o hi)

\* quotient (not trimmed) and remainder of a by one limb d
RECURSIVE BDivSmall(_, _)
BDivSmall(a, d) ==
    IF a = <<>> THEN [q |-> <<>>, r |-> 0]
    ELSE LET hi == BDivSmall(Tail(a), d)
             cur == hi.r * LimbBase + Head(a)
         IN  [q |-> <<cur \div d>> \o hi.q, r |-> cur % d]

RECURSIVE Zeros(_)
Zeros(k) == IF k = 0 THEN <<>> ELSE <<0>> \o Zeros(k - 1)

\* a * 2^k
BShl(a, k) ==
    IF a = <<>> THEN a
    ELSE BMulSmall(Zeros(k \div LimbBits) \o a, 2 ^ (k % LimbBits), 0)

\* floor(a / 2^k)
BShr(a, k) ==
    IF k \div LimbBits >= Len(a) THEN <<>>
    ELSE BTrim(BDivSmall(SubSeq(a, (k \div LimbBits) + 1, Len(a)), 2 ^ (k % LimbBits)).q)

RECURSIVE IntBitLen(_)
IntBitLen(n) == IF n = 0 THEN 0 ELSE 1 + IntBitLen(n \div 2)

BitLen(a) == IF a = <<>> THEN 0 ELSE LimbBits * (Len(a) - 1) + IntBitLen(a[Len(a)])

RECURSIVE BCmpTop(_, _, _)
BCmpTop(a, b, i) ==
    IF i = 0 THEN 0
    ELSE IF a[i] < b[i] THEN -1
    ELSE IF a[i] > b[i] THEN 1
    ELSE BCmpTop(a, b, i - 1)

\* -1, 0, 1 as a < b, a = b, a > b
BCmp(a, b) ==
    IF Len(a) < Len(b) THEN -1
    ELSE IF Len(a) > Len(b) THEN 1
    ELSE BCmpTop(a, b, Len(a))

BOdd(a) == a # <<>> /\ Head(a) % 2 = 1

\* The largest d with d * b <= cur, for cur < b * LimbBase and b of at least
\* two limbs with the top bit of its top limb set: the quotient of the top
\* limbs of cur by the top limb of b is d, d + 1 or d + 2.
BDigit(cur, b) ==
    LET Fits(d) == (d = 0) \/ (BCmp(BMulSmall(b, d, 0), cur) <= 0)
        First(d) == IF Fits(d) THEN d ELSE IF Fits(d - 1) THEN d - 1 ELSE d - 2
        Capped(d) == First(IF d > LimbBase - 1 THEN LimbBase - 1 ELSE d)
    IN  Capped(((IF Len(cur) > Len(b) THEN cur[Len(b) + 1] * LimbBase ELSE 0)
                   + (IF Len(cur) >= Len(b) THEN cur[Len(b)] ELSE 0)) \div b[Len(b)])

\* long division, one limb of the quotient at a time
RECURSIVE BDivLimbs(_, _)
BDivLimbs(a, b) ==
    IF a = <<>> THEN [q |-> <<>>, r |-> <<>>]
    ELSE LET Digit(hi, cur, d) ==
                 [q |-> <<d>> \o hi.q, r |-> BSub(cur, BMulSmall(b, d, 0))]
             Step(hi, cur) == Digit(hi, cur, BDigit(cur, b))
             After(hi) ==
                 IF hi.r = <<>> /\ Head(a) = 0 THEN [q |-> <<0>> \o hi.q, r |-> <<>>]
                 ELSE Step(hi, BTrim(<<Head(a)>> \o hi.r))
         IN  After(BDivLimbs(Tail(a), b))

\* floor(a / b) and whether the division is exact, b # 0.  a and b are
\* first multiplied by the power of two that sets the top bit of the top
\* limb of b.
BDivQR(a, b) ==
    LET Small(s) == [q |-> BTrim(s.q), exact |-> s.r = 0]
        Long(d) == [q |-> BTrim(d.q), exact |-> d.r = <<>>]
        Shifted(k) == Long(BDivLimbs(BShl(a, k), BShl(b, k)))
    IN  IF Len(b) = 1 THEN Small(BDivSmall(a, b[1]))
        ELSE Shifted(LimbBits - IntBitLen(b[Len(b)]))

RECURSIVE IntTZ(_)
IntTZ(n) == IF n % 2 = 1 THEN 0 ELSE 1 + IntTZ(n \div 2)

\* the number of trailing zero bits of a # 0
RECURSIVE BTZ(_)
BTZ(a) == IF Head(a) = 0 THEN LimbBits + BTZ(Tail(a)) ELSE IntTZ(Head(a))

-----------------------------------------------------------------------------
(* Floating-point values and the operations of C on them.                  *)

RoundingTypes == {"float", "double"}

\* the mantissa bits of a type
Precision(type) == IF type = "float" THEN 24 ELSE 53

FZero == <<0, <<>>, 0>>

\* The functions of the program and the arithmetic they are written in are
\* reached through one recursive operator: Invoke(f, a) is the result of
\* the function named f on the arguments a.
RECURSIVE Invoke(_, _)

\* s * m * 2^e in normal form
FNorm(s, m, e) == Invoke("FNorm", <<s, m, e>>)

\* a value rounded to a mantissa of p bits
FRound(p, a) == Invoke("FRound", <<p, a>>)

\* the exact sum and the exact product
FSum(a, b) == Invoke("FSum", <<a, b>>)
FProd(a, b) == Invoke("FProd", <<a, b>>)

\* a / b in a type of p mantissa bits
FDiv(p, a, b) == Invoke("FDiv", <<p, a, b>>)

\* floor
FFloor(a) == Invoke("FFloor", <<a>>)

\* an integer value below 2^31 as an integer
FToInt(a) == Invoke("FToInt", <<a>>)

\* FNorm
Normal(s, m, e) ==
    IF m = <<>> THEN FZero
    ELSE LET z == BTZ(m) IN <<s, BShr(m, z), e + z>>

\* an integer as a floating-point value
FInt(n) == FNorm(IF n < 0 THEN -1 ELSE 1, BFromInt(Abs(n)), 0)

\* n / 2^k
FDyadic(n, k) == FNorm(IF n < 0 THEN -1 ELSE 1, BFromInt(Abs(n)), -k)

FNeg(a) == <<-a[1], a[2], a[3]>>

\* fabs
FFabs(a) == <<Abs(a[1]), a[2], a[3]>>

\* a value rounded to a mantissa of p bits: to nearest, ties to even
Rounded(p, a) ==
    LET k == BitLen(a[2]) - p
    IN  IF k <= 0 THEN a
        ELSE LET q1 == BShr(a[2], k - 1)
                 q == BShr(q1, 1)
                 up == IF k = 1 THEN BOdd(q) ELSE BOdd(q1)
             IN  FNorm(a[1], IF up THEN BAddC(q, <<>>, 1) ELSE q, a[3] + k)

\* the exact sum
Sum(a, b) ==
    IF a[1] = 0 THEN b
    ELSE IF b[1] = 0 THEN a
    ELSE LET e == IF a[3] < b[3] THEN a[3] ELSE b[3]
             ma == BShl(a[2], a[3] - e)
             mb == BShl(b[2], b[3] - e)
             c == BCmp(ma, mb)
         IN  IF a[1] = b[1] THEN FNorm(a[1], BAdd(ma, mb), e)
             ELSE IF c = 0 THEN FZero
             ELSE IF c > 0 THEN FNorm(a[1], BSub(ma, mb), e)
             ELSE FNorm(b[1], BSub(mb, ma), e)

\* the exact product
Product(a, b) == FNorm(a[1] * b[1], BMul(a[2], b[2]), a[3] + b[3])

\* -1, 0, 1 as a < b, a = b, a > b
FCmp(a, b) == FSum(a, FNeg(b))[1]
FLt(a, b) == FCmp(a, b) < 0
FLe(a, b) == FCmp(a, b) <= 0
FGt(a, b) == FCmp(a, b) > 0
FGe(a, b) == FCmp(a, b) >= 0

\* a + b, a - b, a * b and a / b in a type of p mantissa bits
FAdd(p, a, b) == FRound(p, FSum(a, b))
FSub(p, a, b) == FRound(p, FSum(a, FNeg(b)))
FMul(p, a, b) == FRound(p, FProd(a, b))

\* The quotient is taken to p + 2 bits and a last bit that says whether the
\* division left a remainder, which is what the rounding needs.
Quotient(p, a, b) ==
    IF a[1] = 0 THEN FZero
    ELSE LET k0 == p + 2 + BitLen(b[2]) - BitLen(a[2])
             k == IF k0 < 0 THEN 0 ELSE k0
             Sticky(d) == BAddC(BMulSmall(d.q, 2, 0), <<>>, IF d.exact THEN 0 ELSE 1)
         IN  FRound(p, FNorm(a[1] * b[1], Sticky(BDivQR(BShl(a[2], k), b[2])),
                             a[3] - b[3] - k - 1))

\* floor
Floor(a) ==
    IF a[3] >= 0 THEN a
    ELSE LET q == BShr(a[2], -a[3])
         IN  IF a[1] > 0 THEN FNorm(1, q, 0)
             ELSE FNorm(-1, BAddC(q, <<>>, 1), 0)

\* the number of bits of an integer value a > 0
FBits(a) == BitLen(a[2]) + a[3]

\* an integer value below 2^31 as an integer
Truncated(a) == a[1] * BToInt(BShl(a[2], a[3]))

Half == <<1, <<1>>, -1>>
One == <<1, <<1>>, 0>>

\* the whole number with the given decimal digits
RECURSIVE BDecimal(_, _)
BDecimal(digits, acc) ==
    IF digits = <<>> THEN acc
    ELSE BDecimal(Tail(digits), BMulSmall(acc, 10, Head(digits)))

\* Line 8: the double nearest to the literal 3.14159265358979323846 is
\* 0x1.921fb54442d18p+1 = 884279719003555 * 2^-48; the mantissa is
\* 25 * 2^45 + 4349 * 2^30 + 21777 * 2^15 + 1443.
M_PI == <<1, <<1443, 21777, 4349, 25>>, -48>>
-----------------------------------------------------------------------------
(* The paint primitives.                                                   *)

CastModes == {"wrap", "saturate"}
U16 == 65536

\* (uint16_t) v for a rounding_t v >= 0: truncation; undefined when the
\* truncated value does not fit.  A "wrap" build converts to a 32-bit
\* integer and keeps the low 16 bits; that conversion gives 0x80000000,
\* with low bits 0, from 2^31 on.  A "saturate" build gives 65535.
CastU16(v, mode) ==
    LET Cast(t) == IF t[1] = 0 THEN 0
                   ELSE IF FBits(t) <= 16 THEN FToInt(t)
                   ELSE IF mode = "saturate" THEN U16 - 1
                   ELSE IF FBits(t) <= 31 THEN FToInt(t) % U16
                   ELSE 0
    IN  Cast(FFloor(v))

\* Lines 422-426.
paintPixel(f, x, y, color) ==
    IF (x < f.width) /\ (y < f.height)
    THEN [f EXCEPT !.buffer[x + y * f.width] = color]
    ELSE f

\* Lines 428-432.
paintPixelf(f, x, y, color, mode) ==
    IF FGe(x, FZero) /\ FGe(y, FZero)
    THEN paintPixel(f, CastU16(x, mode), CastU16(y, mode), color)
    ELSE f

-----------------------------------------------------------------------------
(* The scan conversion of one projected triangle (lines 106-326).  A point  *)
(* is [x, y] with rounding_t coordinates; the result is the sequence of     *)
(* paint requests <<x, y>> in the order the code makes them; p is the       *)
(* precision of rounding_t.                                                 *)

Pt(x, y) == [x |-> x, y |-> y]

\* Lines 106-116 with p1.x in place of left.x on line 113.
LeftSelFromP1(p1, p2, p3) ==
    LET l1 == IF FGt(p1.x, p2.x) THEN 2 ELSE 1
    IN  IF FGt(p1.x, p3.x) THEN 3 ELSE l1

\* Lines 106-116.
LeftSel(p1, p2, p3) ==
    LET l1 == IF FGt(p1.x, p2.x) THEN 2 ELSE 1
        lx == IF l1 = 2 THEN p2.x ELSE p1.x
    IN  IF FGt(lx, p3.x) THEN 3 ELSE l1

\* Lines 118-128.
RightSel(p1, p2, p3) ==
    LET Second(leftSel, r1) ==
            IF FLt(IF r1 = 2 THEN p2.x ELSE p3.x, p1.x) /\ (leftSel # 1) THEN 1 ELSE r1
        First(leftSel) ==
            Second(leftSel,
                   IF (FLt(p3.x, p2.x) \/ (leftSel = 3)) /\ (leftSel # 2) THEN 2 ELSE 3)
    IN  First(LeftSel(p1, p2, p3))

Sel(p1, p2, p3, k) == IF k = 1 THEN p1 ELSE IF k = 2 THEN p2 ELSE p3

\* Lines 106-137.  stale is what the variable center held before: the code
\* assigns center only when leftSel + rightSel is 3, 4 or 5.
Classify(p1, p2, p3, stale) ==
    LET Chosen(leftSel, rightSel) ==
            [leftSel |-> leftSel,
             rightSel |-> rightSel,
             left |-> Sel(p1, p2, p3, leftSel),
             right |-> Sel(p1, p2, p3, rightSel),
             center |-> IF leftSel + rightSel = 3 THEN p3
                        ELSE IF leftSel + rightSel = 4 THEN p2
                        ELSE IF leftSel + rightSel = 5 THEN p1
                        ELSE stale]
    IN  Chosen(LeftSel(p1, p2, p3), RightSel(p1, p2, p3))

\* Lines 140, 166, 249: which of the three shapes is painted.
Branch(c) ==
    IF (c.left.x = c.center.x) /\ (c.center.x = c.right.x) THEN "line"
    ELSE IF (c.left.x = c.center.x) \/ (c.center.x = c.right.x) THEN "vertical"
    ELSE "general"

\* Lines 170-190: top, bottom and side of a triangle with a vertical edge.
VerticalEdge(c) ==
    LET Edge(a, side, leftDirection) ==
            [top |-> IF FGt(a.y, c.center.y) THEN a ELSE c.center,
             bottom |-> IF FGt(a.y, c.center.y) THEN c.center ELSE a,
             side |-> side,
             leftDirection |-> leftDirection]
    IN  IF c.left.x = c.center.x THEN Edge(c.left, c.right, 0) ELSE Edge(c.right, c.left, 1)

\* The denominators of the slope divisions the branch executes
\* (lines 193-194 and 251-253), in the order of the code.
Denominators(c, p) ==
    LET OfEdge(v) == <<FSub(p, v.top.x, v.side.x), FSub(p, v.bottom.x, v.side.x)>>
    IN  IF Branch(c) = "line" THEN <<>>
        ELSE IF Branch(c) = "vertical" THEN OfEdge(VerticalEdge(c))
        ELSE <<FSub(p, c.center.x, c.left.x), FSub(p, c.right.x, c.left.x),
               FSub(p, c.right.x, c.center.x)>>

\* Lines 193-194, 251-253: (a.y - b.y) / (a.x - b.x) in rounding_t.
Slope(a, b, p) == FDiv(p, FSub(p, a.y, b.y), FSub(p, a.x, b.x))

\* Lines 202-203 and alike: (slope * (x - anchor.x)) + anchor.y in rounding_t.
EdgeY(slope, x, anchor, p) == FAdd(p, FMul(p, slope, FSub(p, x, anchor.x)), anchor.y)

\* Lines 214-216: x is moved to the middle of its pixel.  floor is a double
\* function, so the difference and the sum are double operations, and the
\* sum is stored into the rounding_t x.
Snap(x, p) ==
    LET From(floor) == IF FSub(53, x, floor) # Half THEN FRound(p, FAdd(53, floor, Half)) ELSE x
    IN  From(FFloor(x))

\* for (y = topY; y > bottomY; y--) paintPixelf(frame, x, y, color);
RECURSIVE ColumnDown(_, _, _, _)
ColumnDown(x, y, bottomY, p) ==
    IF FGt(y, bottomY) THEN <<<<x, y>>>> \o ColumnDown(x, FSub(p, y, One), bottomY, p)
    ELSE <<>>

\* A column and the one more paint at its lower end (lines 206-211).
Column(x, topY, bottomY, p) == ColumnDown(x, topY, bottomY, p) \o <<<<x, bottomY>>>>

\* Lines 142-165: the one-vertical-line shape.
LineRequests(c, p1, p2, p3, width, p) ==
    IF FLt(c.center.x, FZero) \/ FGe(c.center.x, FInt(width)) THEN <<>>
    ELSE LET Max(m1) == IF FLt(m1, p3.y) THEN p3.y ELSE m1
             Min(n1) == IF FGt(n1, p3.y) THEN p3.y ELSE n1
         IN  ColumnDown(c.center.x, Max(IF FLt(p1.y, p2.y) THEN p2.y ELSE p1.y),
                        Min(IF FGt(p1.y, p2.y) THEN p2.y ELSE p1.y), p)

\* Lines 200-217 (dir = -1) and 225-242 (dir = 1): the walk from the
\* vertical edge towards side.
RECURSIVE VerticalWalk(_, _, _, _, _, _)
VerticalWalk(x, side, upperSlope, lowerSlope, dir, p) ==
    IF (dir = -1 /\ FGt(x, side.x)) \/ (dir = 1 /\ FLt(x, side.x))
    THEN Column(x, EdgeY(upperSlope, x, side, p), EdgeY(lowerSlope, x, side, p), p)
            \o VerticalWalk(FAdd(p, Snap(x, p), FInt(dir)), side, upperSlope, lowerSlope,
                            dir, p)
    ELSE <<>>

\* Lines 166-248.
VerticalRequests(c, p) ==
    LET Walk(v, upperSlope, lowerSlope) ==
            VerticalWalk(v.top.x, v.side, upperSlope, lowerSlope,
                         IF v.leftDirection = 1 THEN -1 ELSE 1, p)
                \o (IF \/ /\ v.leftDirection = 1
                           /\ FGt(FSub(53, v.side.x, FFabs(v.side.x)), Half)
                        \/ /\ v.leftDirection # 1
                           /\ FLt(FSub(53, v.side.x, FFloor(v.side.x)), Half)
                    THEN <<<<v.side.x, v.side.y>>>> ELSE <<>>)
        OfEdge(v) == Walk(v, Slope(v.top, v.side, p), Slope(v.bottom, v.side, p))
    IN  OfEdge(VerticalEdge(c))

\* Lines 257-286 and 289-317: one span of the general shape, walked from x
\* up to limit; the two edges are anchored at the point anchor.
RECURSIVE SpanWalk(_, _, _, _, _, _, _)
SpanWalk(x, limit, anchor, slopeA, slopeB, width, p) ==
    IF FLt(x, limit)
    THEN IF FLt(x, FZero) \/ FGe(x, FInt(width))
         THEN SpanWalk(FAdd(p, x, One), limit, anchor, slopeA, slopeB, width, p)
         ELSE LET Between(a, b, swap) ==
                      Column(x, IF swap THEN b ELSE a, IF swap THEN a ELSE b, p)
                  Edges(a, b) == Between(a, b, FLt(a, b))
              IN  Edges(EdgeY(slopeA, x, anchor, p), EdgeY(slopeB, x, anchor, p))
                     \o SpanWalk(FAdd(p, Snap(x, p), One), limit, anchor, slopeA, slopeB,
                                 width, p)
    ELSE <<>>

\* Lines 249-326.
GeneralRequests(c, width, p) ==
    LET Spans(slopeLeftCenter, slopeLeftRight, slopeCenterRight) ==
            <<SpanWalk(c.left.x, c.center.x, c.left, slopeLeftCenter, slopeLeftRight,
                       width, p),
              SpanWalk(c.center.x, c.right.x, c.right, slopeCenterRight, slopeLeftRight,
                       width, p)>>
        Joined(spans) == spans[1] \o spans[2]
    IN  Joined(Spans(Slope(c.center, c.left, p), Slope(c.right, c.left, p),
                     Slope(c.right, c.center, p)))
           \o (IF FLt(FSub(53, c.right.x, FFloor(c.right.x)), Half)
                  /\ FGe(c.right.x, FZero) /\ FLt(c.right.x, FInt(width))
               THEN <<<<c.right.x, c.right.y>>>> ELSE <<>>)

\* Lines 106-326 for one triangle: its paint requests.
TriangleRequests(p1, p2, p3, stale, width, p) ==
    LET Shape(c, branch) ==
            IF branch = "line" THEN LineRequests(c, p1, p2, p3, width, p)
            ELSE IF branch = "vertical" THEN VerticalRequests(c, p)
            ELSE GeneralRequests(c, width, p)
        Of(c) == Shape(c, Branch(c))
    IN  Of(Classify(p1, p2, p3, stale))

\* The requests made of paintPixelf, applied in order.  No request paints
\* in a frame without columns (line 423).
RECURSIVE Paint(_, _, _, _)
Paint(f, reqs, color, mode) ==
    IF (f.width = 0) \/ (reqs = <<>>) THEN f
    ELSE Paint(paintPixelf(f, Head(reqs)[1], Head(reqs)[2], color, mode),
               Tail(reqs), color, mode)

-----------------------------------------------------------------------------
(* The camera heading (lines 31-47).  Rotations and fields of view are      *)
(* whole degrees, on which lines 35-42 are exact.                           *)

\* Lines 31-34: (fov * M_PI) / (size * 180.0), a double, stored in rounding_t.
AnglePerPixel(fov, size, p) ==
    FRound(p, FDiv(53, FMul(53, FInt(fov), M_PI), FMul(53, FInt(size), FInt(180))))

\* Lines 35-42 without the second sign change (lines 40-42).
NormalizeYawUnsigned(z) ==
    LET a == IF z < 0 THEN -z ELSE z
    IN  ((a + 180) % 360) - 180

\* Lines 35-42: the yaw before its conversion to radians.  fmod of a
\* non-negative whole number of degrees is the remainder.
NormalizeYaw(z) ==
    LET a == IF z < 0 THEN -z ELSE z
        h == ((a + 180) % 360) - 180
    IN  IF z < 0 THEN -h ELSE h

\* Line 43: cameraHorizontalAngle * (M_PI / 180.0), stored in rounding_t.
HorizontalRadians(yaw, p) ==
    FRound(p, FMul(53, FInt(NormalizeYaw(yaw)), FDiv(53, M_PI, FInt(180))))

\* Line 44: cameraVerticalAngle = (rotation.y * M_PI) / 180.0.
VerticalRadians(pitch, p) ==
    FRound(p, FDiv(53, FMul(53, FInt(pitch), M_PI), FInt(180)))

\* Line 47, the condition of the conditional expression: the angle in
\* RADIANS is compared with 90.
TakesTangent(pitch, p) ==
    LET Beyond(angle) == FLe(angle, FInt(-90)) \/ FGe(angle, FInt(90))
    IN  Beyond(VerticalRadians(pitch, p))

\* (x > 0) - (x < 0)
Sign(x) == (IF FGt(x, FZero) THEN 1 ELSE 0) - (IF FLt(x, FZero) THEN 1 ELSE 0)

StandIn == 10000

\* Line 47: the z component of cameraDirection.  tan is not computed: its
\* result is the record [tan |-> pitch].
DirectionZ(pitch, p) ==
    IF TakesTangent(pitch, p) THEN [tan |-> pitch]
    ELSE FInt(Sign(VerticalRadians(pitch, p)) * StandIn)

\* m * 2^e for a whole number m given by its decimal digits
Scaled(digits, e) == FNorm(1, BDecimal(digits, <<>>), e)

\* cos and sin, double functions, on the magnitudes of the arguments line 43
\* produces from a yaw of 0, 90 and 180 degrees in a double and in a float
\* build.  The results of the C library at the double nearest to pi/2 are
\* 6.123233995736766e-17 and 1, at the float nearest -4.371139000186241e-08
\* and 0.999999999999999; at the double nearest to pi they are -1 and
\* 1.2246467991473532e-16, at the float nearest -0.9999999999999962 and
\* -8.742278000372475e-08.
CosTable(a) ==
    CASE a = FZero -> One
      [] a = HorizontalRadians(90, Precision("double")) ->
            Scaled(<<4, 9, 6, 7, 7, 5, 7, 6, 0, 0, 0, 2, 1, 5, 1, 1>>, -106)
      [] a = HorizontalRadians(90, Precision("float")) ->
            FNeg(Scaled(<<1, 6, 5, 1, 3, 6, 9, 6, 2, 4, 5, 1, 5, 5, 0, 7>>, -75))
      [] a = FFabs(HorizontalRadians(180, Precision("double"))) -> FNeg(One)
      [] a = FFabs(HorizontalRadians(180, Precision("float"))) ->
            FNeg(Scaled(<<9, 0, 0, 7, 1, 9, 9, 2, 5, 4, 7, 4, 0, 9, 5, 8>>, -53))

SinTable(a) ==
    CASE a = FZero -> FZero
      [] a = HorizontalRadians(90, Precision("double")) -> One
      [] a = HorizontalRadians(90, Precision("float")) ->
            Scaled(<<9, 0, 0, 7, 1, 9, 9, 2, 5, 4, 7, 4, 0, 9, 8, 3>>, -53)
      [] a = FFabs(HorizontalRadians(180, Precision("double"))) ->
            Scaled(<<4, 9, 6, 7, 7, 5, 7, 6, 0, 0, 0, 2, 1, 5, 1, 1>>, -105)
      [] a = FFabs(HorizontalRadians(180, Precision("float"))) ->
            FNeg(Scaled(<<6, 6, 0, 5, 4, 7, 8, 4, 9, 8, 0, 6, 2, 0, 2, 2>>, -76))

\* cos is even and sin is odd in the C library.
Cos(a) == CosTable(FFabs(a))
Sin(a) == IF a[1] < 0 THEN FNeg(SinTable(FFabs(a))) ELSE SinTable(a)

\* Lines 45-47: the results are stored in a vector_t of rounding_t.
cameraDirection(rot, p) ==
    LET Towards(a) == <<FRound(p, Cos(a)), FRound(p, Sin(a)), DirectionZ(rot.y, p)>>
    IN  Towards(HorizontalRadians(rot.z, p))

-----------------------------------------------------------------------------
(* Projection (lines 361-391), culling and depth order.                    *)

\* atan2(y, x), a double, on the directions that are multiples of pi/4: the
\* library returns the double nearest to the angle, which is the double
\* product of the multiple and M_PI, divided by 4.
Atan2(y, x) ==
    LET eighth(k) == FDiv(53, FMul(53, FInt(k), M_PI), FInt(4))
    IN  CASE y[1] = 0 /\ x[1] >= 0 -> FZero
          [] y[1] = 0 /\ x[1] < 0 -> M_PI
          [] x[1] = 0 /\ y[1] > 0 -> eighth(2)
          [] x[1] = 0 /\ y[1] < 0 -> eighth(-2)
          [] x[1] > 0 /\ y = x -> eighth(1)
          [] x[1] > 0 /\ y = FNeg(x) -> eighth(-1)
          [] x[1] < 0 /\ y = FNeg(x) -> eighth(3)
          [] x[1] < 0 /\ y = x -> eighth(-3)

\* the largest r in lo .. hi with r * r <= v
RECURSIVE Root(_, _, _)
Root(v, lo, hi) ==
    IF lo = hi THEN lo
    ELSE LET mid == (lo + hi + 1) \div 2
         IN  IF FLe(FProd(FInt(mid), FInt(mid)), v) THEN Root(v, mid, hi)
             ELSE Root(v, lo, mid - 1)

\* sqrt(v), a double, where v is the square of a whole number below 2^15:
\* the library's result is that number.
Sqrt(v) ==
    LET Checked(r) == CASE v = FProd(r, r) -> r
    IN  Checked(FInt(Root(v, 0, LimbBase - 1)))

\* Lines 385-386: atan2(delta.z, sqrt((delta.x * delta.x) + (delta.y * delta.y))),
\* the sum of squares computed in rounding_t.
AtanHyp(delta, p) ==
    LET Over(hh) == Atan2(delta[3], IF hh = FZero THEN FZero ELSE Sqrt(hh))
    IN  IF delta[3] = FZero THEN FZero
        ELSE Over(FAdd(p, FMul(p, delta[1], delta[1]), FMul(p, delta[2], delta[2])))

\* The deltas on which the tables above are defined.
Tabulated(delta, p) ==
    LET Rooted(hh) == (hh = FZero) \/ (hh = FProd(delta[3], delta[3]))
    IN  /\ (delta[1] = FZero) \/ (delta[2] = FZero)
              \/ (FFabs(delta[1]) = FFabs(delta[2]))
        /\ (delta[3] = FZero)
              \/ Rooted(FAdd(p, FMul(p, delta[1], delta[1]), FMul(p, delta[2], delta[2])))

\* Lines 361-391.  The angles are rounding_t; atan2 and M_PI are double, so
\* the differences and the sums with 2 * M_PI are double operations whose
\* result is stored in rounding_t; the quotients and the differences from
\* halfWidth and halfHeight are rounding_t operations.
pointToScreen(delta, camHAngle, camVAngle, angleHPixel, angleVPixel, halfWidth, halfHeight, p) ==
    LET Wrapped(h0) ==
            IF FLe(h0, FNeg(M_PI)) THEN FRound(p, FAdd(53, h0, FMul(53, FInt(2), M_PI)))
            ELSE IF FGt(h0, M_PI) THEN FRound(p, FSub(53, h0, FMul(53, FInt(2), M_PI)))
            ELSE h0
        angleHorizontal ==
            Wrapped(IF (delta[1] = FZero) /\ (delta[2] = FZero) THEN FZero
                    ELSE FRound(p, FSub(53, Atan2(delta[2], delta[1]), camHAngle)))
        angleVertical ==
            IF (delta[1] = FZero) /\ (delta[2] = FZero) /\ (delta[3] = FZero) THEN FZero
            ELSE FRound(p, FSub(53, AtanHyp(delta, p), camVAngle))
    IN  Pt(FSub(p, FInt(halfWidth), FDiv(p, angleHorizontal, angleHPixel)),
           FSub(p, FInt(halfHeight), FDiv(p, angleVertical, angleVPixel)))

\* Lines 393-395, in rounding_t.
dotProduct(a, b, p) ==
    FAdd(p, FAdd(p, FMul(p, a[1], b[1]), FMul(p, a[2], b[2])), FMul(p, a[3], b[3]))

\* Lines 75-83: a vertex relative to the camera, in rounding_t.
Delta(v, loc, p) ==
    <<FSub(p, FInt(v[1]), FInt(loc[1])), FSub(p, FInt(v[2]), FInt(loc[2])),
      FSub(p, FInt(v[3]), FInt(loc[3]))>>

\* Lines 86-88 with < in place of <=.
CulledStrict(t, cam, dir, p) ==
    \A v \in {t.p1, t.p2, t.p3} : FLt(dotProduct(Delta(v, cam.location, p), dir, p), FZero)

\* Lines 75-90: the test that skips a triangle; dir is cameraDirection.
Culled(t, cam, dir, p) ==
    \A v \in {t.p1, t.p2, t.p3} : FLe(dotProduct(Delta(v, cam.location, p), dir, p), FZero)

\* Lines 400-411: one coordinate of the centroid, relative to the camera.
CentroidDelta(a, b, c, l, p) ==
    FSub(p, FDiv(p, FAdd(p, FAdd(p, FInt(a), FInt(b)), FInt(c)), FInt(3)), FInt(l))

\* Lines 400-411: the squared distance from loc to the centroid of t,
\* computed in rounding_t and stored in a float.
CentroidDistance(t, loc, p) ==
    LET Squares(dx, dy, dz) ==
            FRound(Precision("float"),
                   FAdd(p, FAdd(p, FMul(p, dx, dx), FMul(p, dy, dy)), FMul(p, dz, dz)))
    IN  Squares(CentroidDelta(t.p1[1], t.p2[1], t.p3[1], loc[1], p),
                CentroidDelta(t.p1[2], t.p2[2], t.p3[2], loc[2], p),
                CentroidDelta(t.p1[3], t.p2[3], t.p3[3], loc[3], p))

\* Lines 397-420.  cmpCam is the static compareCamera.
compareTriangles(a, b, cmpCam, p) ==
    LET Compare(distA, distB) ==
            IF distA = distB THEN 0 ELSE IF FLt(distA, distB) THEN 1 ELSE -1
    IN  Compare(CentroidDistance(a, cmpCam.location, p),
                CentroidDistance(b, cmpCam.location, p))

\* qsort (line 66), as a stable insertion sort: the C library leaves the
\* order of elements that compare equal open, and fixes it for a given input.
RECURSIVE SortInsert(_, _, _, _)
SortInsert(s, t, cmpCam, p) ==
    IF s = <<>> THEN <<t>>
    ELSE IF compareTriangles(t, Head(s), cmpCam, p) < 0 THEN <<t>> \o s
    ELSE <<Head(s)>> \o SortInsert(Tail(s), t, cmpCam, p)

RECURSIVE qsort(_, _, _)
qsort(ts, cmpCam, p) ==
    IF ts = <<>> THEN <<>>
    ELSE SortInsert(qsort(SubSeq(ts, 1, Len(ts) - 1), cmpCam, p), ts[Len(ts)], cmpCam, p)

-----------------------------------------------------------------------------
(* Render_Engine_RenderFrame (lines 27-328).                               *)

\* Lines 28, 50-53: every cell is set to the background colour.
ClearFrame(f, w) ==
    [f EXCEPT !.buffer = [i \in 0 .. ((f.width * f.height) % U16) - 1 |-> w.backgroundColor]]

\* Lines 63-66 with the assignments to compareCamera moved after qsort.
SortTrianglesStale(w, cam, cmpCam, p) == qsort(w.triangles, cmpCam, p)

\* Lines 56-66: the working copy, sorted with compareCamera at the camera.
SortTriangles(w, cam, cmpCam, p) ==
    qsort(w.triangles, [cmpCam EXCEPT !.location = cam.location], p)

\* Lines 56-62: the caller's world after the call; the sort works on a copy.
WorldAfterRender(w, cam, cmpCam) == w

\* Lines 29-47: what RenderFrame computes from the camera and the frame
\* before its loop.
View(cam, f, p) ==
    [halfWidth |-> f.width \div 2,
     halfHeight |-> f.height \div 2,
     anglePerPixelHorizontal |-> AnglePerPixel(cam.fovHorizontal, f.width, p),
     anglePerPixelVertical |-> AnglePerPixel(cam.fovVertical, f.height, p),
     cameraHorizontalAngle |-> HorizontalRadians(cam.rotation.z, p),
     cameraVerticalAngle |-> VerticalRadians(cam.rotation.y, p),
     cameraDirection |-> cameraDirection(cam.rotation, p)]

\* Lines 93-104: the projected points of the vertices vs of a triangle.
RECURSIVE ProjectPoints(_, _, _, _)
ProjectPoints(vs, cam, v, p) ==
    IF vs = <<>> THEN <<>>
    ELSE <<pointToScreen(Delta(Head(vs), cam.location, p),
                         v.cameraHorizontalAngle, v.cameraVerticalAngle,
                         v.anglePerPixelHorizontal, v.anglePerPixelVertical,
                         v.halfWidth, v.halfHeight, p)>>
         \o ProjectPoints(Tail(vs), cam, v, p)

\* Lines 93-104: the three projected points of a triangle.
Project(t, cam, v, p) == ProjectPoints(<<t.p1, t.p2, t.p3>>, cam, v, p)

\* Lines 73-327: the loop over the sorted triangles.  The result is the
\* frame and, per triangle, what the iteration did.
RECURSIVE RenderLoop(_, _, _, _, _, _, _)
RenderLoop(ts, f, stale, cam, v, mode, p) ==
    IF ts = <<>> THEN [frame |-> f, entries |-> <<>>]
    ELSE LET Entry(t, culled, s, reqs, rest) ==
                 [entries |-> <<[tri |-> t, culled |-> culled, screen |-> s,
                                 requests |-> reqs]>> \o rest.entries,
                  frame |-> rest.frame]
             Painted(t, s, reqs) ==
                 Entry(t, FALSE, s, reqs,
                       RenderLoop(Tail(ts), Paint(f, reqs, t.color, mode),
                                  Classify(s[1], s[2], s[3], stale).center, cam, v, mode, p))
             Projected(t, s) ==
                 Painted(t, s, TriangleRequests(s[1], s[2], s[3], stale, f.width, p))
         IN  IF Culled(Head(ts), cam, v.cameraDirection, p)
             THEN Entry(Head(ts), TRUE, <<>>, <<>>,
                        RenderLoop(Tail(ts), f, stale, cam, v, mode, p))
             ELSE Projected(Head(ts), Project(Head(ts), cam, v, p))

\* Lines 27-328.
Render(w, cam, f, cmpCam, stale, mode, p) ==
    LET Result(r) ==
            [frame |-> r.frame,
             entries |-> r.entries,
             world |-> WorldAfterRender(w, cam, cmpCam),
             compareCamera |-> [cmpCam EXCEPT !.location = cam.location]]
    IN  Result(RenderLoop(SortTriangles(w, cam, cmpCam, p), ClearFrame(f, w), stale, cam,
                          View(cam, f, p), mode, p))

-----------------------------------------------------------------------------
(* The bounded inputs of the renderer.                                     *)

FrameWidth == 4
FrameHeight == 4
MaxTriangles == 2

Tri(p1, p2, p3, color) == [p1 |-> p1, p2 |-> p2, p3 |-> p3, color |-> color]

\* A wide far triangle, a near one over part of it, a triangle in the
\* vertical plane through the camera axis, one behind and above the origin,
\* and a near triangle with the same outline as the far one.
Catalogue ==
    { Tri(<<2, 2, 0>>, <<2, -2, 0>>, <<2, 0, 2>>, 1),
      Tri(<<1, 0, 0>>, <<2, 0, 2>>, <<2, 2, 0>>, 2),
      Tri(<<1, 0, -1>>, <<1, 0, 0>>, <<1, 0, 1>>, 3),
      Tri(<<-1, 1, 0>>, <<-1, -1, 0>>, <<0, 0, 1>>, 4),
      Tri(<<1, 1, 0>>, <<1, -1, 0>>, <<1, 0, 1>>, 5) }

\* Two distant triangles with one outline on the screen.  The sums of their
\* vertices are (15000, 0, 5000) and (15000, 2, 5000): the squared centroid
\* distances are 250000000/9 and 250000004/9, and the second is farther.
Distant ==
    { Tri(<<5000, 5000, 0>>, <<5000, -5000, 0>>, <<5000, 0, 5000>>, 6),
      Tri(<<5001, 5001, 0>>, <<4999, -4999, 0>>, <<5000, 0, 5000>>, 7) }

\* The sequences of at most n different elements of S.
RECURSIVE SeqsUpTo(_, _)
SeqsUpTo(S, n) ==
    IF n = 0 THEN {<<>>}
    ELSE LET shorter == SeqsUpTo(S, n - 1)
         IN  shorter \cup UNION {{Append(q, e) :
                                      e \in {x \in S : \A k \in 1 .. Len(q) : q[k] # x}} :
                                  q \in shorter}

Worlds ==
    {[backgroundColor |-> 0, triangles |-> ts] :
        ts \in SeqsUpTo(Catalogue, MaxTriangles) \cup SeqsUpTo(Distant, MaxTriangles)}

Cam(loc, yaw, pitch, fovH, fovV) ==
    [location |-> loc, rotation |-> [y |-> pitch, z |-> yaw],
     fovHorizontal |-> fovH, fovVertical |-> fovV]

Cameras ==
    { Cam(<<0, 0, 0>>, 0, 0, 360, 180),
      Cam(<<0, 0, 0>>, 360, 45, 360, 180),
      Cam(<<0, 0, 0>>, -360, -45, 180, 180),
      Cam(<<4, 0, 0>>, 0, 0, 360, 180),
      Cam(<<0, 0, 0>>, 90, 0, 360, 180),
      Cam(<<0, 0, 0>>, -90, 0, 360, 180),
      Cam(<<0, 0, 0>>, 180, 0, 360, 180) }

AllTabulated(ts, cam, p) ==
    \A k \in 1 .. Len(ts) :
        /\ Tabulated(Delta(ts[k].p1, cam.location, p), p)
        /\ Tabulated(Delta(ts[k].p2, cam.location, p), p)
        /\ Tabulated(Delta(ts[k].p3, cam.location, p), p)

\* A scene is a world and a camera whose deltas the tables cover.
Scenes(p) ==
    {sc \in [world : Worlds, camera : Cameras] :
        AllTabulated(sc.world.triangles, sc.camera, p)}

\* What the uninitialised local variable center may hold on entry.
Garbage == {Pt(FZero, FZero), Pt(FNeg(One), Half)}

FillColors == {0, 9}

Filled(c) == [width |-> FrameWidth, height |-> FrameHeight,
              buffer |-> [i \in 0 .. FrameWidth * FrameHeight - 1 |-> c]]

NoCall == [made |-> FALSE]

MaxGridX == 3
MaxGridY == 1

\* Projected points on a grid of half pixels.
GridPoints == {Pt(FDyadic(i, 1), FInt(j)) : i \in 0 .. MaxGridX, j \in 0 .. MaxGridY}

\* rounding_t values: halves about the frame, whole numbers about 2^16,
\* and 2^31 and 2^32 with a few whole numbers added.
PaintCoords(p) ==
    {FDyadic(i, 1) : i \in -2 .. 2 * FrameWidth + 1}
        \cup {FInt(U16 + k) : k \in -1 .. FrameWidth}
        \cup {FRound(p, FSum(FDyadic(1, -e), FInt(k))) : e \in {31, 32}, k \in 0 .. 1}

\* Lines 106-140 and the slope divisions of the shape chosen.
Classified(pts, stale, p) ==
    LET Shape(c, branch) ==
            [made |-> TRUE, left |-> c.left, center |-> c.center, right |-> c.right,
             branch |-> branch, denominators |-> Denominators(c, p),
             edge |-> IF branch = "vertical" THEN VerticalEdge(c) ELSE NoCall]
        Of(c) == Shape(c, Branch(c))
    IN  Of(Classify(pts[1], pts[2], pts[3], stale))

\* Lines 35-47: the normalized yaw and the z component of cameraDirection.
Heading(rot, p) ==
    [made |-> TRUE, yaw |-> NormalizeYaw(rot.z), tangent |-> TakesTangent(rot.y, p),
     z |-> DirectionZ(rot.y, p)]

Invoke(f, a) ==
    CASE f = "FNorm" /\ Len(a) = 3 -> Normal(a[1], a[2], a[3])
      [] f = "FRound" /\ Len(a) = 2 -> Rounded(a[1], a[2])
      [] f = "FSum" /\ Len(a) = 2 -> Sum(a[1], a[2])
      [] f = "FProd" /\ Len(a) = 2 -> Product(a[1], a[2])
      [] f = "FDiv" /\ Len(a) = 3 -> Quotient(a[1], a[2], a[3])
      [] f = "FFloor" /\ Len(a) = 1 -> Floor(a[1])
      [] f = "FToInt" /\ Len(a) = 1 -> Truncated(a[1])
      [] f = "Render_Engine_RenderFrame" -> Render(a[1], a[2], a[3], a[4], a[5], a[6], a[7])
      [] f = "paintPixelf" -> paintPixelf(a[1], a[2], a[3], a[4], a[5])
      [] f = "Classified" -> Classified(a[1], a[2], a[3])
      [] f = "Heading" -> Heading(a[1], a[2])
      [] f = "Scenes" -> Scenes(a[1])
      [] f = "GridPoints" -> GridPoints
      [] f = "PaintCoords" -> PaintCoords(a[1])

-----------------------------------------------------------------------------
(* The renderer as a state machine: the caller renders scenes into one      *)
(* framebuffer and may write to the framebuffer between calls.              *)

ZeroCamera == Cam(<<0, 0, 0>>, 0, 0, 0, 0)

IdleRender ==
    /\ world = [backgroundColor |-> 0, triangles |-> <<>>]
    /\ camera = ZeroCamera
    /\ frame = Filled(0)
    /\ compareCamera = ZeroCamera
    /\ trace = NoCall
    /\ first = NoCall

IdleTx == [pc |-> "idle", op |-> "none", frame |-> Filled(0), i |-> 0, lastColor |-> 0,
           pending |-> <<>>]

IdleUart == [space |-> TRUE, transmitting |-> FALSE]

IdleHeading == rotation = [y |-> 0, z |-> 0] /\ heading = NoCall
IdleTerminal == number = 0 /\ tx = IdleTx /\ uart = IdleUart /\ channel = <<>>
                   /\ displayed = <<>>
IdleClassify == points = <<>> /\ shape = NoCall
IdlePaint == request = NoCall /\ before = Filled(0)

\* The build: what the cast does out of range, and the type rounding_t.
Build == castMode \in CastModes /\ roundingType \in RoundingTypes

buildVars == <<castMode, roundingType>>
renderVars == <<world, camera, frame, compareCamera, trace, first>>
headingVars == <<rotation, heading>>
terminalVars == <<number, tx, uart, channel, displayed>>
classifyVars == <<points, shape>>
paintVars == <<request, before>>

\* Before the first call of a run: compareCamera is static, so zero, and
\* nothing else of the program has run.
BeforeFirstCall ==
    /\ compareCamera = ZeroCamera
    /\ trace = NoCall
    /\ first = NoCall
    /\ IdleHeading /\ IdleTerminal /\ IdleClassify /\ IdlePaint

\* The caller owns a world and a camera, and its framebuffer holds what it
\* left there.
Init ==
    /\ Build
    /\ \E sc \in Invoke("Scenes", <<Precision(roundingType)>>) :
          world = sc.world /\ camera = sc.camera
    /\ frame = Filled(9)
    /\ BeforeFirstCall

\* One call Render_Engine_RenderFrame(&sc.world, &sc.camera, &frame).  trace
\* records the call; when track, first records the first call and whether a
\* later call had its camera at another place.
RenderCall(sc, track) ==
    \E stale \in Garbage :
        \E r \in {Invoke("Render_Engine_RenderFrame",
                          <<sc.world, sc.camera, frame, compareCamera, stale, castMode,
                            Precision(roundingType)>>)} :
            /\ world' = r.world
            /\ camera' = sc.camera
            /\ frame' = r.frame
            /\ compareCamera' = r.compareCamera
            /\ trace' = [made |-> TRUE, world |-> sc.world, camera |-> sc.camera,
                         entries |-> r.entries, buffer |-> r.frame.buffer]
            /\ first' = IF ~track THEN first
                        ELSE IF ~first.made
                        THEN [made |-> TRUE, world |-> sc.world, camera |-> sc.camera,
                              buffer |-> r.frame.buffer, moved |-> FALSE]
                        ELSE [first EXCEPT !.moved =
                                 @ \/ (sc.camera.location # first.camera.location)]
            /\ UNCHANGED <<buildVars, headingVars, terminalVars, classifyVars, paintVars>>

\* The caller renders its world through its camera.
RenderFrame == RenderCall([world |-> world, camera |-> camera], FALSE)

Next == RenderFrame

Spec == Init /\ [][Next]_vars

\* Repeated calls: two cameras at different places over the far triangle
\* and the near one over part of it.
RepeatCameras == {Cam(<<0, 0, 0>>, 0, 0, 360, 180), Cam(<<4, 0, 0>>, 0, 0, 360, 180)}

RepeatWorlds ==
    {[backgroundColor |-> 0, triangles |-> ts] :
        ts \in SeqsUpTo({t \in Catalogue : t.color \in {1, 2}}, MaxTriangles) \ {<<>>}}

RepeatScenes == [world : RepeatWorlds, camera : RepeatCameras]

\* The cast is not reached out of range here: one of the two builds.
InitRepeat ==
    /\ Build
    /\ castMode = "wrap"
    /\ \E sc \in RepeatScenes : world = sc.world /\ camera = sc.camera
    /\ \E c \in FillColors : frame = Filled(c)
    /\ BeforeFirstCall

\* The caller renders any of its worlds through any of its cameras.
RenderAgain == \E sc \in RepeatScenes : RenderCall(sc, TRUE)

\* The caller overwrites its framebuffer between two calls.
Scribble ==
    /\ \E c \in FillColors : frame' = Filled(c)
    /\ UNCHANGED <<buildVars, world, camera, compareCamera, trace, first, headingVars,
                   terminalVars, classifyVars, paintVars>>

NextRepeat == RenderAgain \/ Scribble

SpecRepeat == InitRepeat /\ [][NextRepeat]_vars

-----------------------------------------------------------------------------
(* Properties of one RenderFrame call, stated on its record in trace.      *)

\* The cells a sequence of paint requests stores into.
PaintedCells(reqs, mode) ==
    LET f == Paint(Filled(-1), reqs, 0, mode)
    IN  {i \in DOMAIN f.buffer : f.buffer[i] = 0}

Drawn == {k \in 1 .. Len(trace.entries) : ~trace.entries[k].culled}

\* 9 times the squared distance from the camera to the centroid of entry k,
\* in whole numbers: the square of (sum of the vertices - 3 * camera).
Distance(k) ==
    LET t == trace.entries[k].tri
        l == trace.camera.location
        s(n) == t.p1[n] + t.p2[n] + t.p3[n] - 3 * l[n]
    IN  s(1) * s(1) + s(2) * s(2) + s(3) * s(3)

Painters(i) == {k \in Drawn : i \in PaintedCells(trace.entries[k].requests, castMode)}

\* C2: depth ordering.  Of two triangles that are not culled and whose
\* squared centroid distances differ, the farther is rasterized first; so a
\* cell ends the frame with the colour of the triangle painting it that is
\* nearer than every other triangle painting it.
C2_DepthOrdering ==
    trace.made =>
        /\ \A j, k \in Drawn : Distance(j) > Distance(k) => j < k
        /\ \A i \in DOMAIN trace.buffer :
              \A j \in Painters(i) :
                  (\A k \in Painters(i) \ {j} : Distance(k) > Distance(j))
                      => trace.buffer[i] = trace.entries[j].tri.color

\* The dot product of two vectors of rounding_t values, not rounded.
ExactDot(a, b) == FSum(FSum(FProd(a[1], b[1]), FProd(a[2], b[2])), FProd(a[3], b[3]))

\* The dot product of a camera-relative vertex of the call in trace with the
\* camera direction the call computed.
DirectionDot(v) ==
    ExactDot(Delta(v, trace.camera.location, Precision(roundingType)),
             cameraDirection(trace.camera.rotation, Precision(roundingType)))

\* All three camera-relative vertices of t have a dot product <= 0 with the
\* camera direction.
AllBehind(t) == \A v \in {t.p1, t.p2, t.p3} : FLe(DirectionDot(v), FZero)

\* C3: hemisphere culling.  A triangle is skipped, with no paint request,
\* exactly when all three of its camera-relative vertices have a dot product
\* <= 0 with the camera direction; a world of such triangles only leaves
\* every cell at the background colour.
C3_HemisphereCulling ==
    trace.made =>
        /\ \A k \in 1 .. Len(trace.entries) :
              /\ trace.entries[k].culled <=> AllBehind(trace.entries[k].tri)
              /\ trace.entries[k].culled => trace.entries[k].requests = <<>>
        /\ (\A k \in 1 .. Len(trace.world.triangles) :
                AllBehind(trace.world.triangles[k]))
              => \A i \in DOMAIN trace.buffer :
                    trace.buffer[i] = trace.world.backgroundColor

\* C3 witness: a call on a world of triangles that are all skipped, one of
\* them with a vertex whose dot product is exactly 0.
C3_Witness ==
    /\ trace.made
    /\ Len(trace.entries) > 0
    /\ \A k \in 1 .. Len(trace.entries) : trace.entries[k].culled
    /\ \E k \in 1 .. Len(trace.entries) :
          \E v \in {trace.entries[k].tri.p1, trace.entries[k].tri.p2,
                    trace.entries[k].tri.p3} : DirectionDot(v) = FZero

\* floor(v) as an integer, for a small v
Whole(v) == FToInt(FFloor(v))

\* The rows of the framebuffer from the row of y = lo to the row of y = hi.
RowSpan(lo, hi) == {r \in 0 .. FrameHeight - 1 : Whole(lo) <= r /\ r <= Whole(hi)}

MinY(s) == CHOOSE y \in {s[1].y, s[2].y, s[3].y} : \A z \in {s[1].y, s[2].y, s[3].y} : FLe(y, z)
MaxY(s) == CHOOSE y \in {s[1].y, s[2].y, s[3].y} : \A z \in {s[1].y, s[2].y, s[3].y} : FGe(y, z)

SharedColumn(e) ==
    /\ ~e.culled
    /\ e.screen[1].x = e.screen[2].x /\ e.screen[2].x = e.screen[3].x
    /\ FGe(e.screen[1].x, FZero) /\ FLt(e.screen[1].x, FInt(FrameWidth))

\* C4: degenerate column.  A triangle whose projected vertices share a
\* screen x inside the frame paints exactly the cells of that column in the
\* rows from min(y) to max(y), both ends included.
C4_DegenerateColumn ==
    trace.made =>
        \A k \in 1 .. Len(trace.entries) :
            SharedColumn(trace.entries[k]) =>
                PaintedCells(trace.entries[k].requests, castMode)
                    = {Whole(trace.entries[k].screen[1].x) + r * FrameWidth :
                          r \in RowSpan(MinY(trace.entries[k].screen),
                                        MaxY(trace.entries[k].screen))}

-----------------------------------------------------------------------------
(* Repeated calls (SpecRepeat).                                            *)

SameAsFirst == trace.made /\ first.made
                  /\ trace.world = first.world /\ trace.camera = first.camera

\* C5: idempotence.  A call with the world and camera of the first call
\* produces the framebuffer the first call produced, whatever the
\* framebuffer held before and whatever calls were made in between; and
\* after every call the caller's world is the world it passed.
C5_Idempotence ==
    /\ SameAsFirst => trace.buffer = first.buffer
    /\ trace.made => world = trace.world

\* C5 witness: the scene of the first call, with two overlapping triangles
\* drawn, is rendered again after a call whose camera was at another place.
C5_Witness ==
    /\ SameAsFirst
    /\ first.moved
    /\ \E j, k \in Drawn :
          /\ trace.entries[j].tri.color # trace.entries[k].tri.color
          /\ \E i \in DOMAIN trace.buffer : Painters(i) = {j, k}

-----------------------------------------------------------------------------
(* The classification of three projected points (SpecClassify).            *)

InitClassify ==
    /\ Build
    /\ points \in [1 .. 3 -> Invoke("GridPoints", <<>>)]
    /\ shape = NoCall
    /\ IdleRender /\ IdleHeading /\ IdleTerminal /\ IdlePaint

\* The three points are classified.
ClassifyPoints ==
    /\ ~shape.made
    /\ \E stale \in Garbage :
          shape' = Invoke("Classified", <<points, stale, Precision(roundingType)>>)
    /\ UNCHANGED <<buildVars, points, renderVars, headingVars, terminalVars, paintVars>>

NextClassify == ClassifyPoints

SpecClassify == InitClassify /\ [][NextClassify]_vars

Permutations3 == {f \in [1 .. 3 -> 1 .. 3] : {f[1], f[2], f[3]} = {1, 2, 3}}

\* C7: no slope division has a zero denominator.  left, center, right are
\* a permutation of the three points with left.x <= center.x <= right.x;
\* the vertical-edge shape divides by (top.x - side.x) and
\* (bottom.x - side.x) only, with side.x off the shared x; the general shape
\* is entered only with three pairwise distinct x.
C7_NoZeroDenominator ==
    shape.made =>
        /\ \E f \in Permutations3 :
              /\ shape.left = points[f[1]]
              /\ shape.center = points[f[2]]
              /\ shape.right = points[f[3]]
        /\ FLe(shape.left.x, shape.center.x) /\ FLe(shape.center.x, shape.right.x)
        /\ \A k \in 1 .. Len(shape.denominators) : shape.denominators[k] # FZero
        /\ shape.branch = "vertical" =>
              /\ shape.denominators
                    = <<FSub(Precision(roundingType), shape.edge.top.x, shape.edge.side.x),
                        FSub(Precision(roundingType), shape.edge.bottom.x, shape.edge.side.x)>>
              /\ shape.edge.top.x = shape.edge.bottom.x
              /\ shape.edge.side.x # shape.edge.top.x
        /\ shape.branch = "general" =>
              /\ shape.left.x # shape.center.x
              /\ shape.center.x # shape.right.x
              /\ shape.left.x # shape.right.x
        /\ shape.branch = "line" => shape.denominators = <<>>

\* C7 witness: two points share an x to the right of the third, which was
\* handed over first, and the two slope divisions were made.
C7_Witness ==
    /\ shape.made
    /\ shape.branch = "vertical"
    /\ points[2].x = points[3].x
    /\ FLt(points[1].x, points[2].x)
    /\ Len(shape.denominators) = 2

-----------------------------------------------------------------------------
(* Paint requests (SpecPaint): paintPixelf on coordinates inside the       *)
(* frame, outside it, negative, and beyond the range of uint16_t and of a  *)
(* 32-bit integer.                                                         *)

MaxRequests == 2

InitPaint ==
    /\ Build
    /\ world = [backgroundColor |-> 0, triangles |-> <<>>]
    /\ camera = ZeroCamera
    /\ frame = Filled(0)
    /\ compareCamera = ZeroCamera
    /\ trace = NoCall
    /\ first = NoCall
    /\ request = [made |-> FALSE, n |-> 0]
    /\ before = Filled(0)
    /\ IdleHeading /\ IdleTerminal /\ IdleClassify

\* One call paintPixelf(&frame, x, y, color).
PaintRequest ==
    /\ request.n < MaxRequests
    /\ \E x, y \in Invoke("PaintCoords", <<Precision(roundingType)>>) :
          /\ request' = [made |-> TRUE, n |-> request.n + 1, x |-> x, y |-> y,
                         color |-> request.n + 1]
          /\ before' = frame
          /\ frame' = Invoke("paintPixelf", <<frame, x, y, request.n + 1, castMode>>)
    /\ UNCHANGED <<buildVars, world, camera, compareCamera, trace, first, headingVars,
                   terminalVars, classifyVars>>

NextPaint == PaintRequest

SpecPaint == InitPaint /\ [][NextPaint]_vars

\* C1: bounds safety.  Every store is at an index x + y*width with
\* 0 <= x < width and 0 <= y < height, and a paint request with a negative
\* coordinate, or with x >= width or y >= height, writes nothing.
C1_BoundsSafety ==
    request.made =>
        /\ DOMAIN frame.buffer = DOMAIN before.buffer
        /\ \A i \in DOMAIN frame.buffer :
              frame.buffer[i] # before.buffer[i] =>
                  \E x \in 0 .. frame.width - 1, y \in 0 .. frame.height - 1 :
                      i = x + y * frame.width
        /\ (\/ FLt(request.x, FZero) \/ FLt(request.y, FZero)
            \/ FGe(request.x, FInt(frame.width)) \/ FGe(request.y, FInt(frame.height)))
              => frame = before

-----------------------------------------------------------------------------
(* The terminal helpers (lines 434-481).  A byte is its ASCII code.  A      *)
(* helper is a sequence of writeTerminalBlock calls; the operators below    *)
(* give the bytes of those calls in order, and the action TransmitByte      *)
(* performs one call at a time, once the UART has space for the byte.       *)

ESC == 27
Byte == 256

\* Line 478: the argument of one call, an uint8_t.
writeTerminalBlock(data) == <<data % Byte>>

\* Lines 444-467.  n is the uint8_t number; '0' is 48.
writeTerminalNumber(n) ==
    LET hundreds == (n \div 100) % 10
        tens == (n \div 10) % 10
        ones == n % 10
        atHundreds == hundreds > 0
        atTens == (tens > 0) \/ atHundreds
        atOnes == (ones > 0) \/ atTens
    IN  (IF atHundreds THEN writeTerminalBlock(hundreds + 48) ELSE <<>>)
           \o (IF atTens THEN writeTerminalBlock(tens + 48) ELSE <<>>)
           \o (IF atOnes THEN writeTerminalBlock(ones + 48) ELSE <<>>)

\* Lines 469-476: ESC [ <color> m.
changeTerminalColor(color) ==
    writeTerminalBlock(ESC) \o writeTerminalBlock(91)
        \o writeTerminalNumber(color) \o writeTerminalBlock(109)

\* Lines 435-442: ESC [ <y+1> ; <x+1> H, the sums converted to uint8_t.
changeTerminalCursorLocation(x, y) ==
    writeTerminalBlock(ESC) \o writeTerminalBlock(91)
        \o writeTerminalNumber((y + 1) % Byte) \o writeTerminalBlock(59)
        \o writeTerminalNumber((x + 1) % Byte) \o writeTerminalBlock(72)

\* Lines 478-481: the busy wait ends when the UART has space, and the byte
\* of the oldest pending writeTerminalBlock call is handed to the UART.
TransmitByte ==
    /\ tx.pending # <<>>
    /\ uart.space
    /\ channel' = Append(channel, Head(tx.pending))
    /\ uart' = [space |-> FALSE, transmitting |-> TRUE]
    /\ tx' = [tx EXCEPT !.pending = Tail(@)]
    /\ UNCHANGED <<buildVars, number, displayed, renderVars, headingVars, classifyVars,
                   paintVars>>

\* The UART takes the byte out of its buffer: there is space for the next.
UartTake ==
    /\ ~uart.space
    /\ uart' = [uart EXCEPT !.space = TRUE]
    /\ UNCHANGED <<buildVars, number, tx, channel, displayed, renderVars, headingVars,
                   classifyVars, paintVars>>

\* The UART has sent every byte it was handed.
UartDone ==
    /\ uart.space
    /\ uart.transmitting
    /\ uart' = [uart EXCEPT !.transmitting = FALSE]
    /\ UNCHANGED <<buildVars, number, tx, channel, displayed, renderVars, headingVars,
                   classifyVars, paintVars>>

MaxNumber == 255

InitNumber ==
    /\ Build
    /\ number \in 0 .. MaxNumber
    /\ tx = IdleTx
    /\ uart = IdleUart
    /\ channel = <<>>
    /\ displayed = <<>>
    /\ IdleRender /\ IdleHeading /\ IdleClassify /\ IdlePaint

\* A helper is entered: its writeTerminalBlock calls are pending.
Call(op, bytes) ==
    /\ tx.pc = "idle"
    /\ tx' = [tx EXCEPT !.pc = "writing", !.op = op, !.pending = bytes]
    /\ UNCHANGED <<buildVars, number, uart, channel, displayed, renderVars, headingVars,
                   classifyVars, paintVars>>

WriteNumber == Call("number", writeTerminalNumber(number))

ChangeColor == Call("color", changeTerminalColor(number))

CursorHome == Call("home", changeTerminalCursorLocation(0, 0))

\* The helper returns after its last writeTerminalBlock call.
HelperReturn ==
    /\ tx.pc = "writing"
    /\ tx.pending = <<>>
    /\ tx' = [tx EXCEPT !.pc = "returned"]
    /\ UNCHANGED <<buildVars, number, uart, channel, displayed, renderVars, headingVars,
                   classifyVars, paintVars>>

NextNumber ==
    \/ WriteNumber \/ ChangeColor \/ CursorHome
    \/ TransmitByte \/ HelperReturn
    \/ UartTake \/ UartDone

SpecNumber == InitNumber /\ [][NextNumber]_vars

\* The decimal digits of n, without a leading zero, at least one digit.
RECURSIVE Decimal(_)
Decimal(n) == IF n < 10 THEN <<48 + n>> ELSE Decimal(n \div 10) \o <<48 + (n % 10)>>

\* C6: writeTerminalNumber transmits the decimal digits of the number, with
\* no leading zero and at least the ones digit; the cursor-home sequence is
\* ESC [ 1 ; 1 H and the colour sequence of c is ESC [ <decimal c> m.
C6_DecimalDigits ==
    tx.pc = "returned" =>
        /\ tx.op = "number" => channel = Decimal(number)
        /\ tx.op = "color" => channel = <<ESC, 91>> \o Decimal(number) \o <<109>>
        /\ tx.op = "home" => channel = <<ESC, 91, 49, 59, 49, 72>>

-----------------------------------------------------------------------------
(* Render_Engine_DisplayFrame (lines 330-358) on one channel (SpecDisplay). *)

\* Lines 343-356: the writeTerminalBlock calls of the iteration for cell i.
CellBytes(f, i, lastColor) ==
    (IF (i > 0) /\ ((i % f.width) = 0)
     THEN writeTerminalBlock(13) \o writeTerminalBlock(10) ELSE <<>>)
        \o (IF lastColor # f.buffer[i] THEN changeTerminalColor(f.buffer[i]) ELSE <<>>)
        \o writeTerminalBlock(32)

\* What a terminal makes of the bytes: per space character, the colour
\* index of the most recent colour-change sequence ESC [ <digits> m before
\* it and whether that sequence ended right before the space.  A sequence
\* without digits selects 0, as does a terminal that received none.
RECURSIVE DigitsValue(_, _)
DigitsValue(bytes, acc) ==
    IF bytes = <<>> THEN acc
    ELSE DigitsValue(Tail(bytes), acc * 10 + (Head(bytes) - 48))

RECURSIVE FinalByte(_, _)
FinalByte(bytes, j) ==
    IF j > Len(bytes) \/ bytes[j] >= 64 THEN j ELSE FinalByte(bytes, j + 1)

RECURSIVE Terminal(_, _, _, _)
Terminal(bytes, i, colour, fresh) ==
    IF i > Len(bytes) THEN <<>>
    ELSE IF bytes[i] = ESC
    THEN LET j == FinalByte(bytes, i + 2)
         IN  IF j <= Len(bytes) /\ bytes[j] = 109
             THEN Terminal(bytes, j + 1, DigitsValue(SubSeq(bytes, i + 2, j - 1), 0), TRUE)
             ELSE Terminal(bytes, j + 1, colour, FALSE)
    ELSE IF bytes[i] = 32
    THEN <<[terminal |-> colour, changed |-> fresh]>> \o Terminal(bytes, i + 1, colour, FALSE)
    ELSE Terminal(bytes, i + 1, colour, FALSE)

DisplayWidth == 2
DisplayHeight == 2
MaxCalls == 2
DisplayColors == {0, 5, 42}

DisplayFrames ==
    {[width |-> DisplayWidth, height |-> DisplayHeight, buffer |-> b] :
        b \in [0 .. DisplayWidth * DisplayHeight - 1 -> DisplayColors]}

InitDisplay ==
    /\ Build
    /\ number = 0
    /\ tx = IdleTx
    /\ uart = IdleUart
    /\ channel = <<>>
    /\ displayed = <<>>
    /\ IdleRender /\ IdleHeading /\ IdleClassify /\ IdlePaint

\* A call Render_Engine_DisplayFrame(channel, &f) is entered.
DisplayFrame ==
    /\ tx.pc \in {"idle", "returned"}
    /\ Len(displayed) < MaxCalls
    /\ \E f \in DisplayFrames :
          tx' = [pc |-> "wait", op |-> "display", frame |-> f, i |-> 0, lastColor |-> 0,
                 pending |-> <<>>]
    /\ UNCHANGED <<buildVars, number, uart, channel, displayed, renderVars, headingVars,
                   classifyVars, paintVars>>

\* Lines 332-338: the wait for the UART to stop transmitting ends, and the
\* cursor is sent to the origin.
DisplayWait ==
    /\ tx.pc = "wait"
    /\ ~uart.transmitting
    /\ tx' = [tx EXCEPT !.pc = "cells", !.i = 0, !.lastColor = 0,
                        !.pending = changeTerminalCursorLocation(0, 0)]
    /\ UNCHANGED <<buildVars, number, uart, channel, displayed, renderVars, headingVars,
                   classifyVars, paintVars>>

\* Lines 341-357: one iteration of the loop over the cells.
DisplayCell ==
    /\ tx.pc = "cells"
    /\ tx.pending = <<>>
    /\ tx.i < tx.frame.width * tx.frame.height
    /\ tx' = [tx EXCEPT !.pending = CellBytes(tx.frame, tx.i, tx.lastColor),
                        !.lastColor = tx.frame.buffer[tx.i],
                        !.i = tx.i + 1]
    /\ UNCHANGED <<buildVars, number, uart, channel, displayed, renderVars, headingVars,
                   classifyVars, paintVars>>

\* Line 358: the call returns after the last cell.
DisplayReturn ==
    /\ tx.pc = "cells"
    /\ tx.pending = <<>>
    /\ tx.i = tx.frame.width * tx.frame.height
    /\ tx' = [tx EXCEPT !.pc = "returned"]
    /\ displayed' = Append(displayed, tx.frame)
    /\ UNCHANGED <<buildVars, number, uart, channel, renderVars, headingVars, classifyVars,
                   paintVars>>

NextDisplay ==
    \/ DisplayFrame \/ DisplayWait \/ DisplayCell \/ DisplayReturn
    \/ TransmitByte
    \/ UartTake \/ UartDone

SpecDisplay == InitDisplay /\ [][NextDisplay]_vars

\* Per cell of a frame, in the order of the loop: the cell's colour and the
\* colour of the cell before it in the call (0 before the first).
FrameCells(f) ==
    [k \in 1 .. f.width * f.height |->
        [cell |-> f.buffer[k - 1], previous |-> IF k = 1 THEN 0 ELSE f.buffer[k - 2]]]

RECURSIVE CallCells(_)
CallCells(fs) == IF fs = <<>> THEN <<>> ELSE FrameCells(Head(fs)) \o CallCells(Tail(fs))

\* The cells of the calls that returned and of the call in progress.
Cells ==
    CallCells(displayed \o (IF tx.pc \in {"wait", "cells"} THEN <<tx.frame>> ELSE <<>>))

\* C10: every cell is shown in its own colour.  The most recent
\* colour-change sequence before a cell's space character carries the
\* cell's colour, and a colour-change sequence is transmitted only right
\* before a cell whose colour differs from the colour emitted before it.
C10_CellsInOwnColour ==
    \A k \in 1 .. Len(Terminal(channel, 1, 0, FALSE)) :
        /\ Terminal(channel, 1, 0, FALSE)[k].terminal = Cells[k].cell
        /\ Terminal(channel, 1, 0, FALSE)[k].changed => Cells[k].cell # Cells[k].previous

-----------------------------------------------------------------------------
(* The heading computation alone (SpecHeading).                            *)

MaxYaw == 800
MaxPitch == 5200

InitHeading ==
    /\ Build
    /\ \/ \E z \in -MaxYaw .. MaxYaw : rotation = [y |-> 0, z |-> z]
       \/ \E y \in -MaxPitch .. MaxPitch : rotation = [y |-> y, z |-> 0]
    /\ heading = NoCall
    /\ IdleRender /\ IdleTerminal /\ IdleClassify /\ IdlePaint

\* One computation of the heading for the rotation.
ComputeHeading ==
    /\ ~heading.made
    /\ heading' = Invoke("Heading", <<rotation, Precision(roundingType)>>)
    /\ UNCHANGED <<buildVars, rotation, renderVars, terminalVars, classifyVars, paintVars>>

NextHeading == ComputeHeading

SpecHeading == InitHeading /\ [][NextHeading]_vars

\* C8: heading vector boundary.  At pitch 0 the z component of the camera
\* direction is 10000, and for any other pitch the stand-in +/-10000 is
\* selected only at or beyond +/-90 degrees.
C8_HeadingBoundary ==
    heading.made =>
        /\ rotation.y = 0 => ~heading.tangent /\ heading.z = FInt(StandIn)
        /\ (rotation.y # 0 /\ ~heading.tangent
                /\ heading.z \in {FInt(StandIn), FInt(-StandIn)})
              => Abs(rotation.y) >= 90

\* C9 as stated: the normalized yaw is congruent to the yaw modulo 360 and
\* lies in (-180, 180].
C9_Claimed ==
    heading.made =>
        /\ (heading.yaw - rotation.z) % 360 = 0
        /\ -180 < heading.yaw /\ heading.yaw <= 180

\* C9, yaw normalization: the normalized yaw is congruent to the yaw modulo 360 and
\* lies in [-180, 180]: in [-180, 180) for a yaw >= 0 and in (-180, 180] for
\* a yaw < 0.
C9_YawNormalization ==
    heading.made =>
        /\ (heading.yaw - rotation.z) % 360 = 0
        /\ -180 <= heading.yaw /\ heading.yaw <= 180
        /\ rotation.z >= 0 => heading.yaw < 180
        /\ rotation.z < 0 => heading.yaw > -180

\* C9 witness: a yaw of 180 was normalized to -180.
C9_Witness == heading.made /\ rotation.z = 180 /\ heading.yaw = -180

====
